---- MODULE Spec2Model ----
(***************************************************************************)
(* Verlet particle simulation over a rebuilt-per-pass region quadtree      *)
(* (src/src/quadtree.rs, src/src/main.rs).                                 *)
(*                                                                         *)
(* Numbers.  Every f32 of the program is a fixed-point integer counting    *)
(* 1/Scale of a pixel, or the value NaN.  Halving, addition, subtraction   *)
(* and comparison are exact on the values used here; sqrt and division     *)
(* round toward zero.  A comparison with NaN is false and every arithmetic *)
(* operation on NaN yields NaN, as in IEEE 754.                            *)
(***************************************************************************)
EXTENDS Integers, Sequences, FiniteSets, TLC

VARIABLES
    points,            \* Model.points: the particle store
    points_per_quad,   \* Model.points_per_quad
    running,           \* Model.running
    spawner_mode,      \* Model.spawner_mode
    mouse_radius,      \* Model.mouse_radius
    minimum_size,      \* Model.minimum_size
    maximum_size,      \* Model.maximum_size
    window,            \* app.window_rect(): [w, h], centred on the origin
    tree,              \* the QuadTree a from_points call returned
    result,            \* the Vec a query_radius call returned
    pc,                \* position of the running handler
    snapshot,          \* the store as it was when the current pass began
    task,              \* per particle: position of its rayon task
    const_point,       \* per task: its const_point clone
    found,             \* per task: the neighbours its query returned
    spawnLog,          \* ids handed out by spawn_point, oldest first
    frame              \* number of frame updates run so far

vars == <<points, points_per_quad, running, spawner_mode, mouse_radius,
          minimum_size, maximum_size, window, tree, result, pc, snapshot,
          task, const_point, found, spawnLog, frame>>

(***************************************************************************)
(* Bounds of the model.                                                    *)
(***************************************************************************)
MaxTreePts == 3
MaxCap == 2
MaxPassPts == 2
MaxFrames == 2

(***************************************************************************)
(* f32 arithmetic.                                                         *)
(***************************************************************************)
Scale == 100
NaN == 2000000000

IsNaN(a) == a = NaN

FAdd(a, b) == IF IsNaN(a) \/ IsNaN(b) THEN NaN ELSE a + b
FSub(a, b) == IF IsNaN(a) \/ IsNaN(b) THEN NaN ELSE a - b
FLt(a, b) == ~IsNaN(a) /\ ~IsNaN(b) /\ a < b
FLe(a, b) == ~IsNaN(a) /\ ~IsNaN(b) /\ a <= b
FGt(a, b) == ~IsNaN(a) /\ ~IsNaN(b) /\ a > b
FGe(a, b) == ~IsNaN(a) /\ ~IsNaN(b) /\ a >= b

\* Division rounding toward zero.
TDiv(a, b) == IF a >= 0 THEN a \div b ELSE -((-a) \div b)

\* x / 2.0
Half(a) == IF IsNaN(a) THEN NaN ELSE TDiv(a, 2)

\* Product of two fixed-point values.
FMul(a, b) == IF IsNaN(a) \/ IsNaN(b) THEN NaN ELSE TDiv(a * b, Scale)

RECURSIVE ISqrtRec(_, _, _)
ISqrtRec(n, lo, hi) ==
    IF lo >= hi THEN lo
    ELSE LET mid == (lo + hi + 1) \div 2
         IN  IF mid * mid <= n THEN ISqrtRec(n, mid, hi)
             ELSE ISqrtRec(n, lo, mid - 1)

\* Largest r with r * r <= n.
ISqrt(n) == ISqrtRec(n, 0, 46340)

Vec2(x, y) == [x |-> x, y |-> y]
VZero == Vec2(0, 0)
VAdd(a, b) == Vec2(FAdd(a.x, b.x), FAdd(a.y, b.y))
VSub(a, b) == Vec2(FSub(a.x, b.x), FSub(a.y, b.y))
VIsNaN(a) == IsNaN(a.x) \/ IsNaN(a.y)

\* axis.x * axis.x + axis.y * axis.y, in squared units.
LengthSquared(a) == IF VIsNaN(a) THEN NaN ELSE a.x * a.x + a.y * a.y
\* f32::sqrt of a value in squared units.
Sqrt(d) == IF IsNaN(d) THEN NaN ELSE ISqrt(d)
\* Vec2::length
Length(a) == Sqrt(LengthSquared(a))

\* Vec2::normalize: self * (1.0 / length).  For the zero vector the
\* reciprocal is infinite and 0 * inf is NaN in both components.
Normalize(a) ==
    LET len == Length(a)
    IN  IF IsNaN(len) \/ len = 0 THEN Vec2(NaN, NaN)
        ELSE Vec2(TDiv(a.x * Scale, len), TDiv(a.y * Scale, len))

(***************************************************************************)
(* Point and the window rectangle.                                         *)
(***************************************************************************)
Point(id, position, prev_position, acceleration, radius) ==
    [id |-> id, position |-> position, prev_position |-> prev_position,
     acceleration |-> acceleration, radius |-> radius]

Px(n) == n * Scale

WinLeft(win) == -Half(win.w)
WinRight(win) == Half(win.w)
WinBottom(win) == -Half(win.h)
WinTop(win) == Half(win.h)

(***************************************************************************)
(* QuadTree.                                                               *)
(***************************************************************************)
Leaf(value) == [kind |-> "Leaf", value |-> value]
Branch(nw, ne, sw, se) ==
    [kind |-> "Branch", nw |-> nw, ne |-> ne, sw |-> sw, se |-> se]

QuadTreeNew(left_x, bottom_y, width, height) ==
    [left_x |-> left_x, bottom_y |-> bottom_y, width |-> width,
     height |-> height, root |-> Leaf(<<>>)]

\* The partition of an overflowing leaf (quadtree.rs:114-116).
SplitNorth(b, y_mid) == FGe(b.position.y, y_mid)
SplitWest(b, x_mid) == FLt(b.position.x, x_mid)

SplitLeaf(value, x_mid, y_mid) ==
    LET north == SelectSeq(value, LAMBDA b : SplitNorth(b, y_mid))
        south == SelectSeq(value, LAMBDA b : ~SplitNorth(b, y_mid))
        nw == SelectSeq(north, LAMBDA b : SplitWest(b, x_mid))
        ne == SelectSeq(north, LAMBDA b : ~SplitWest(b, x_mid))
        sw == SelectSeq(south, LAMBDA b : SplitWest(b, x_mid))
        se == SelectSeq(south, LAMBDA b : ~SplitWest(b, x_mid))
    IN  Branch(Leaf(nw), Leaf(ne), Leaf(sw), Leaf(se))

\* The comparisons of the descent through a branch (quadtree.rs:132-148).
DescendWest(ball, x_mid) == FLt(ball.position.x, x_mid)
DescendNorth(ball, y_mid) == FGt(ball.position.y, y_mid)

\* The quadrant insert descends into: "nw", "ne", "sw" or "se".
DescendQuadrant(ball, x_mid, y_mid) ==
    IF DescendWest(ball, x_mid)
    THEN (IF DescendNorth(ball, y_mid) THEN "nw" ELSE "sw")
    ELSE (IF DescendNorth(ball, y_mid) THEN "ne" ELSE "se")

RECURSIVE InsertNode(_, _, _, _, _, _, _)
InsertNode(node, ball, x, y, width, height, ppq) ==
    LET w == Half(width)
        h == Half(height)
        x_mid == FAdd(x, w)
        y_mid == FAdd(y, h)
    IN  IF node.kind = "Leaf"
        THEN LET value == Append(node.value, ball)
             IN  IF Len(value) > ppq
                 THEN SplitLeaf(value, x_mid, y_mid)
                 ELSE Leaf(value)
        ELSE LET q == DescendQuadrant(ball, x_mid, y_mid)
             IN  CASE q = "nw" ->
                        [node EXCEPT !.nw = InsertNode(node.nw, ball, x, y_mid, w, h, ppq)]
                   [] q = "sw" ->
                        [node EXCEPT !.sw = InsertNode(node.sw, ball, x, y, w, h, ppq)]
                   [] q = "ne" ->
                        [node EXCEPT !.ne = InsertNode(node.ne, ball, x_mid, y_mid, w, h, ppq)]
                   [] q = "se" ->
                        [node EXCEPT !.se = InsertNode(node.se, ball, x_mid, y, w, h, ppq)]

Insert(t, ball, ppq) ==
    [t EXCEPT !.root = InsertNode(t.root, ball, t.left_x, t.bottom_y,
                                  t.width, t.height, ppq)]

\* The filter with the test against the right edge left out.
InBoundsNoRightEdge(p, left_x, bottom_y, width, height) ==
    /\ FGe(p.position.x, left_x)
    /\ FGe(p.position.y, bottom_y)
    /\ FLe(p.position.y, FAdd(bottom_y, height))

\* The filter of from_points (quadtree.rs:41).
InBounds(p, left_x, bottom_y, width, height) ==
    /\ FGe(p.position.x, left_x)
    /\ FLe(p.position.x, FAdd(left_x, width))
    /\ FGe(p.position.y, bottom_y)
    /\ FLe(p.position.y, FAdd(bottom_y, height))

RECURSIVE InsertAll(_, _, _)
InsertAll(t, ps, ppq) ==
    IF ps = <<>> THEN t
    ELSE InsertAll(Insert(t, Head(ps), ppq), Tail(ps), ppq)

FromPoints(ps, left_x, bottom_y, width, height, ppq) ==
    InsertAll(QuadTreeNew(left_x, bottom_y, width, height),
              SelectSeq(ps, LAMBDA p : InBounds(p, left_x, bottom_y, width, height)),
              ppq)

\* The pruning test with a rectangle that touches the query square pruned too.
PrunedTouching(x, y, radius, quad_x, quad_y, width, height) ==
    \/ FLe(FAdd(x, radius), quad_x)
    \/ FGe(FSub(x, radius), FAdd(quad_x, width))
    \/ FLe(FAdd(y, radius), quad_y)
    \/ FGe(FSub(y, radius), FAdd(quad_y, height))

\* The pruning test of query_radius (quadtree.rs:53).
Pruned(x, y, radius, quad_x, quad_y, width, height) ==
    \/ FLt(FAdd(x, radius), quad_x)
    \/ FGt(FSub(x, radius), FAdd(quad_x, width))
    \/ FLt(FAdd(y, radius), quad_y)
    \/ FGt(FSub(y, radius), FAdd(quad_y, height))

\* The work-list loop of query_radius: pop the last entry, prune or expand.
RECURSIVE QueryLoop(_, _, _, _, _)
QueryLoop(stack, res, x, y, radius) ==
    IF stack = <<>> THEN res
    ELSE LET top == stack[Len(stack)]
             rest == SubSeq(stack, 1, Len(stack) - 1)
             node == top.node
         IN  IF Pruned(x, y, radius, top.x, top.y, top.w, top.h)
             THEN QueryLoop(rest, res, x, y, radius)
             ELSE IF node.kind = "Leaf"
             THEN QueryLoop(rest, res \o node.value, x, y, radius)
             ELSE LET w == Half(top.w)
                      h == Half(top.h)
                      x_mid == FAdd(top.x, w)
                      y_mid == FAdd(top.y, h)
                  IN  QueryLoop(rest \o
                                <<[node |-> node.nw, x |-> top.x, y |-> y_mid, w |-> w, h |-> h],
                                  [node |-> node.ne, x |-> x_mid, y |-> y_mid, w |-> w, h |-> h],
                                  [node |-> node.sw, x |-> top.x, y |-> top.y, w |-> w, h |-> h],
                                  [node |-> node.se, x |-> x_mid, y |-> top.y, w |-> w, h |-> h]>>,
                                res, x, y, radius)

QueryRadius(t, x, y, radius) ==
    QueryLoop(<<[node |-> t.root, x |-> t.left_x, y |-> t.bottom_y,
                 w |-> t.width, h |-> t.height]>>, <<>>, x, y, radius)

(***************************************************************************)
(* The passes of one sub-step (main.rs).                                   *)
(***************************************************************************)
Gravity == -2200
Substeps == 4
NominalRate == 90

\* normalize(axis) * delta * 0.5
HalfPenetration(axis, delta) ==
    LET n == Normalize(axis)
    IN  Vec2(Half(FMul(n.x, delta)), Half(FMul(n.y, delta)))

\* A task that reads its neighbour from the live store, not from the tree.
NeighbourFromStore(p) == points[p.id + 1].position

\* The neighbour position a collision task reads: the copy held by the tree.
NeighbourPosition(p) == p.position

\* The closure body of resolve_collisions for one returned neighbour p
\* (main.rs:197-205): the task's own point, its const_point clone, and p.
CollideWith(point, cp, p) ==
    LET axis == VSub(cp.position, NeighbourPosition(p))
        dist == LengthSquared(axis)
        reach == point.radius + p.radius
    IN  IF p.id # cp.id /\ FLe(dist, reach * reach)
        THEN LET delta == FSub(reach, Sqrt(dist))
             IN  [point EXCEPT !.position = VAdd(point.position, HalfPenetration(axis, delta))]
        ELSE point

RECURSIVE CollideAll(_, _, _)
CollideAll(point, cp, neighbours) ==
    IF neighbours = <<>> THEN point
    ELSE CollideAll(CollideWith(point, cp, Head(neighbours)), cp, Tail(neighbours))

\* The radius a collision task queries with (main.rs:195).
QueryReach(point, max_radius) == FAdd(point.radius, max_radius)

\* The neighbours of one task.
Neighbours(quadtree, point, max_radius) ==
    QueryRadius(quadtree, point.position.x, point.position.y,
                QueryReach(point, max_radius))

\* The index resolve_collisions builds (main.rs:191).
CollisionTree(ps, win, ppq) ==
    FromPoints(ps, WinLeft(win), WinBottom(win), win.w, win.h, ppq)

\* resolve_collisions as a whole: every task reads the same tree and writes
\* its own point, so the result is the map of the closure over the store.
ResolveCollisions(ps, win, ppq, max_radius) ==
    LET quadtree == CollisionTree(ps, win, ppq)
    IN  [i \in 1..Len(ps) |->
            CollideAll(ps[i], ps[i], Neighbours(quadtree, ps[i], max_radius))]

\* The clamp against the right wall with the radius added, not subtracted.
ClampRightOutside(right, radius) == FAdd(right, radius)

ClampFloor(bottom, radius) == FAdd(bottom, radius)
ClampLeft(left, radius) == FAdd(left, radius)
ClampRight(right, radius) == FSub(right, radius)

\* The closure body of resolve_wall_collisions (main.rs:214-230).
WallPoint(point, win) ==
    LET left == WinLeft(win)
        right == WinRight(win)
        bottom == WinBottom(win)
        p0 == [point EXCEPT !.acceleration = Vec2(0, Px(Gravity))]
        p1 == IF FLt(FSub(p0.position.y, p0.radius), bottom)
              THEN LET y_diff == FSub(p0.position.y, p0.prev_position.y)
                       y == ClampFloor(bottom, p0.radius)
                   IN  [p0 EXCEPT !.acceleration.y = 0,
                                  !.position.y = y,
                                  !.prev_position.y = FAdd(y, Half(y_diff))]
              ELSE p0
        hitLeft == FLt(FSub(p1.position.x, p1.radius), left)
        hitRight == FGt(FAdd(p1.position.x, p1.radius), right)
    IN  IF hitLeft \/ hitRight
        THEN LET x_diff == FSub(p1.position.x, p1.prev_position.x)
                 x == IF hitLeft THEN ClampLeft(left, p1.radius)
                      ELSE ClampRight(right, p1.radius)
             IN  [p1 EXCEPT !.position.x = x,
                            !.prev_position.x = FAdd(x, Half(x_diff))]
        ELSE p1

ResolveWallCollisions(ps, win) == [i \in 1..Len(ps) |-> WallPoint(ps[i], win)]

\* The closure body of resolve_mouse_collisions (main.rs:150-156).
MousePoint(point, mouse_pos, mr) ==
    LET axis == VSub(point.position, mouse_pos)
        dist == Length(axis)
    IN  IF FLe(dist, point.radius + mr)
        THEN LET delta == FSub(point.radius + mr, dist)
             IN  [point EXCEPT !.position = VAdd(point.position, HalfPenetration(axis, delta))]
        ELSE point

ResolveMouseCollisions(ps, mouse_pos, mr) ==
    [i \in 1..Len(ps) |-> MousePoint(ps[i], mouse_pos, mr)]

\* acceleration * delta * delta with delta = 1 / (substeps * 90)
ScaleByDeltaSquared(a) ==
    IF IsNaN(a) THEN NaN
    ELSE TDiv(a, (Substeps * NominalRate) * (Substeps * NominalRate))

\* The integration of one point (main.rs:93-97).
IntegratePoint(point) ==
    LET disp == VSub(point.position, point.prev_position)
        acc == Vec2(ScaleByDeltaSquared(point.acceleration.x),
                    ScaleByDeltaSquared(point.acceleration.y))
    IN  [point EXCEPT !.prev_position = point.position,
                      !.position = VAdd(point.position, VAdd(disp, acc)),
                      !.acceleration = VZero]

Integrate(ps) == [i \in 1..Len(ps) |-> IntegratePoint(ps[i])]

\* One iteration of the sub-step loop of update (main.rs:83-98).
SubStep(ps, win, ppq, max_radius, mouse_pos, mr) ==
    LET a == ResolveCollisions(ps, win, ppq, max_radius)
        b == ResolveWallCollisions(a, win)
        c == ResolveMouseCollisions(b, mouse_pos, mr)
        d == ResolveCollisions(c, win, ppq, max_radius)
    IN  Integrate(d)

(***************************************************************************)
(* Helpers over trees and sequences, used to state the properties.         *)
(***************************************************************************)
Range(s) == {s[i] : i \in 1..Len(s)}

RECURSIVE LeavesOf(_)
LeavesOf(node) ==
    IF node.kind = "Leaf" THEN {node.value}
    ELSE LeavesOf(node.nw) \cup LeavesOf(node.ne)
         \cup LeavesOf(node.sw) \cup LeavesOf(node.se)

TreePoints(t) == UNION {Range(v) : v \in LeavesOf(t.root)}

\* The leaf that the descent of insert reaches for ball's position.
RECURSIVE DescendLeaf(_, _, _, _, _, _)
DescendLeaf(node, ball, x, y, width, height) ==
    LET w == Half(width)
        h == Half(height)
        x_mid == FAdd(x, w)
        y_mid == FAdd(y, h)
        q == DescendQuadrant(ball, x_mid, y_mid)
    IN  IF node.kind = "Leaf" THEN node.value
        ELSE CASE q = "nw" -> DescendLeaf(node.nw, ball, x, y_mid, w, h)
               [] q = "sw" -> DescendLeaf(node.sw, ball, x, y, w, h)
               [] q = "ne" -> DescendLeaf(node.ne, ball, x_mid, y_mid, w, h)
               [] q = "se" -> DescendLeaf(node.se, ball, x_mid, y, w, h)

(***************************************************************************)
(* SpecTree: from_points and query_radius on stores drawn from a grid that *)
(* holds the centre, quadrant midpoints, bounds corners and two positions  *)
(* outside the bounds.                                                     *)
(***************************************************************************)
TreeWindow == [w |-> Px(64), h |-> Px(64)]

TreePositions ==
    {Vec2(0, 0), Vec2(Px(32), Px(32)), Vec2(-Px(32), -Px(32)),
     Vec2(Px(16), 0), Vec2(-Px(16), Px(16)), Vec2(Px(16), Px(16)),
     Vec2(Px(33), 0), Vec2(0, -Px(33))}

TreeStores ==
    UNION {{[i \in 1..n |-> Point(i - 1, f[i], f[i], VZero, Px(8))] :
                f \in [1..n -> TreePositions]} : n \in 0..MaxTreePts}

QueryCentres == {Vec2(0, Px(16)), Vec2(Px(32), 0), Vec2(-Px(16), -Px(16))}
QueryRadii == {0, Px(16), Px(48)}

NoTasks == <<>>

TreeInit ==
    /\ points \in TreeStores
    /\ points_per_quad \in 1..MaxCap
    /\ window = TreeWindow
    /\ tree = QuadTreeNew(WinLeft(window), WinBottom(window), window.w, window.h)
    /\ result = [x |-> 0, y |-> 0, radius |-> 0, value |-> <<>>]
    /\ pc = "new"
    /\ snapshot = points
    /\ running = TRUE
    /\ spawner_mode = "Inactive"
    /\ mouse_radius = Px(16)
    /\ minimum_size = Px(8)
    /\ maximum_size = Px(16)
    /\ task = NoTasks
    /\ const_point = NoTasks
    /\ found = NoTasks
    /\ spawnLog = <<>>
    /\ frame = 0

\* QuadTree::from_points(points.clone(), left, bottom, w, h, points_per_quad)
TreeFromPoints ==
    /\ pc = "new"
    /\ tree' = FromPoints(points, WinLeft(window), WinBottom(window),
                          window.w, window.h, points_per_quad)
    /\ pc' = "built"
    /\ UNCHANGED <<points, points_per_quad, running, spawner_mode, mouse_radius,
                   minimum_size, maximum_size, window, result, snapshot,
                   task, const_point, found, spawnLog, frame>>

\* tree.query_radius(x, y, radius)
TreeQueryRadius ==
    /\ pc \in {"built", "queried"}
    /\ \E c \in QueryCentres, r \in QueryRadii :
          result' = [x |-> c.x, y |-> c.y, radius |-> r,
                     value |-> QueryRadius(tree, c.x, c.y, r)]
    /\ pc' = "queried"
    /\ UNCHANGED <<points, points_per_quad, running, spawner_mode, mouse_radius,
                   minimum_size, maximum_size, window, tree, snapshot,
                   task, const_point, found, spawnLog, frame>>

TreeNext == TreeFromPoints \/ TreeQueryRadius

SpecTree == TreeInit /\ [][TreeNext]_vars

(***************************************************************************)
(* Properties of the quadtree.                                             *)
(***************************************************************************)
InsideInclusive(p, t) ==
    /\ p.position.x >= t.left_x /\ p.position.x <= t.left_x + t.width
    /\ p.position.y >= t.bottom_y /\ p.position.y <= t.bottom_y + t.height

StrictlyOutside(p, t) ==
    \/ p.position.x < t.left_x \/ p.position.x > t.left_x + t.width
    \/ p.position.y < t.bottom_y \/ p.position.y > t.bottom_y + t.height

WithinRadius(p, x, y, radius) ==
    (p.position.x - x) * (p.position.x - x)
        + (p.position.y - y) * (p.position.y - y) <= radius * radius

OnMidpointOrEdge(p, t) ==
    \/ p.position.x \in {t.left_x, t.left_x + Half(t.width), t.left_x + t.width}
    \/ p.position.y \in {t.bottom_y, t.bottom_y + Half(t.height), t.bottom_y + t.height}

\* C1 (broad-phase superset): every particle of the store that lies inside the
\* bounds (inclusive) and whose centre is within the query radius of the query
\* centre is in the collection query_radius returned.
BroadPhaseSuperset ==
    pc = "queried" =>
        \A i \in 1..Len(points) :
            (InsideInclusive(points[i], tree)
             /\ WithinRadius(points[i], result.x, result.y, result.radius))
            => points[i] \in Range(result.value)

\* A query on a split tree that skipped a leaf and still returned a particle
\* lying exactly on a midpoint or a bounds edge, within the radius.
BroadPhaseWitness ==
    /\ pc = "queried"
    /\ tree.root.kind = "Branch"
    /\ Len(result.value) < Cardinality(TreePoints(tree))
    /\ \E i \in 1..Len(points) :
          /\ InsideInclusive(points[i], tree)
          /\ OnMidpointOrEdge(points[i], tree)
          /\ WithinRadius(points[i], result.x, result.y, result.radius)
          /\ points[i] \in Range(result.value)

\* C2 (capacity invariant): after from_points every leaf holds at most
\* points_per_quad particles.
LeafCapacity ==
    pc # "new" => \A v \in LeavesOf(tree.root) : Len(v) <= points_per_quad

\* C3 (exclusion filter): a particle strictly outside the bounds is in no leaf
\* and in no query result, and the store is what it was before the build.
ExclusionFilter ==
    pc # "new" =>
        /\ points = snapshot
        /\ \A i \in 1..Len(points) :
              StrictlyOutside(points[i], tree) =>
                  /\ \A q \in TreePoints(tree) : q.id # points[i].id
                  /\ \A q \in Range(result.value) : q.id # points[i].id

\* A query whose radius covers a particle outside the bounds and that returned
\* other particles.
ExclusionWitness ==
    /\ pc = "queried"
    /\ result.value # <<>>
    /\ \E i \in 1..Len(points) :
          /\ StrictlyOutside(points[i], tree)
          /\ WithinRadius(points[i], result.x, result.y, result.radius)
          /\ points[i] \notin Range(result.value)

\* C8 (tie-break consistency): after a build every stored particle is in the
\* leaf that the descent from the root reaches for its position.
TieBreakConsistent ==
    pc # "new" =>
        \A p \in TreePoints(tree) :
            p \in Range(DescendLeaf(tree.root, p, tree.left_x, tree.bottom_y,
                                    tree.width, tree.height))

(***************************************************************************)
(* SpecPass: one iteration of the sub-step loop, from any store a sub-step *)
(* can start in.  The settings panel runs first, as update_egui does at    *)
(* the top of update; then collision pass A, the wall pass, the pointer    *)
(* pass, collision pass B and the integration.  A collision pass is one    *)
(* rayon task per particle, the tasks running in any order.                *)
(***************************************************************************)
PassWindows == {[w |-> Px(64), h |-> Px(64)], [w |-> Px(16), h |-> Px(64)]}

PassPositions ==
    {Vec2(-Px(18), 0), Vec2(-Px(15), 0), Vec2(0, 0),
     Vec2(-Px(30), -Px(30)), Vec2(Px(30), -Px(30))}

PassRadii == {Px(8), Px(10)}

\* A particle as spawn_point leaves it (main.rs:187), at any position.
Spawned(id, position, radius) ==
    Point(id, position, VAdd(position, Vec2(-Px(2), 0)), VZero, radius)

PassStores ==
    UNION {{[i \in 1..n |-> Spawned(i - 1, f[i].position, f[i].radius)] :
                f \in [1..n -> [position : PassPositions, radius : PassRadii]]} :
           n \in 0..MaxPassPts}

MousePositions == {Vec2(0, 0), Vec2(Px(30), Px(30))}

\* The slider bounds of update_egui (main.rs:171-174): 0.1, 100.0, 1000.
Tenth == Px(1) \div 10
SliderMaximumHigh == Px(100)
SliderQuadHigh == 1000

MaximumSizeRange(min) == {v \in {Px(9), Px(16)} : v >= min + Tenth /\ v <= SliderMaximumHigh}
PointsPerQuadRange == {v \in {1, 16} : v >= 1 /\ v <= SliderQuadHigh}

PassInit ==
    /\ window \in PassWindows
    /\ points \in PassStores
    /\ points_per_quad \in PointsPerQuadRange
    /\ running = TRUE
    /\ spawner_mode = "Inactive"
    /\ mouse_radius = Px(16)
    /\ minimum_size = Px(8)
    /\ maximum_size = Px(16)
    /\ tree = QuadTreeNew(WinLeft(window), WinBottom(window), window.w, window.h)
    /\ result = [x |-> 0, y |-> 0, radius |-> 0, value |-> <<>>]
    /\ pc = "egui"
    /\ snapshot = points
    /\ task = [i \in 1..Len(points) |-> "idle"]
    /\ const_point = points
    /\ found = [i \in 1..Len(points) |-> <<>>]
    /\ spawnLog = <<>>
    /\ frame = 0

\* update_egui: the user leaves the panel alone, or drags one slider.
PassUpdateEgui ==
    /\ pc = "egui"
    /\ \/ UNCHANGED <<maximum_size, points_per_quad>>
       \/ /\ maximum_size' \in MaximumSizeRange(minimum_size) \ {maximum_size}
          /\ UNCHANGED points_per_quad
       \/ /\ points_per_quad' \in PointsPerQuadRange \ {points_per_quad}
          /\ UNCHANGED maximum_size
    /\ pc' = "collideA"
    /\ UNCHANGED <<points, running, spawner_mode, mouse_radius, minimum_size,
                   window, tree, result, snapshot, task, const_point, found,
                   spawnLog, frame>>

\* resolve_collisions, up to the start of the parallel loop (main.rs:191-193).
BeginCollisions ==
    /\ pc \in {"collideA", "collideB"}
    /\ tree' = CollisionTree(points, window, points_per_quad)
    /\ snapshot' = points
    /\ task' = [i \in 1..Len(points) |-> "ready"]
    /\ pc' = IF pc = "collideA" THEN "tasksA" ELSE "tasksB"
    /\ UNCHANGED <<points, points_per_quad, running, spawner_mode, mouse_radius,
                   minimum_size, maximum_size, window, result, const_point,
                   found, spawnLog, frame>>

\* The task of particle i (main.rs:193-206).
CollisionTask(i) ==
    /\ pc \in {"tasksA", "tasksB"}
    /\ task[i] = "ready"
    /\ LET cp == points[i]
           ns == Neighbours(tree, points[i], maximum_size)
       IN  /\ const_point' = [const_point EXCEPT ![i] = cp]
           /\ found' = [found EXCEPT ![i] = ns]
           /\ points' = [points EXCEPT ![i] = CollideAll(points[i], cp, ns)]
    /\ task' = [task EXCEPT ![i] = "done"]
    /\ UNCHANGED <<points_per_quad, running, spawner_mode, mouse_radius,
                   minimum_size, maximum_size, window, tree, result, pc,
                   snapshot, spawnLog, frame>>

\* The end of the parallel loop: every task has run.
JoinCollisions ==
    /\ pc \in {"tasksA", "tasksB"}
    /\ \A i \in 1..Len(points) : task[i] = "done"
    /\ pc' = IF pc = "tasksA" THEN "wall" ELSE "integrate"
    /\ UNCHANGED <<points, points_per_quad, running, spawner_mode, mouse_radius,
                   minimum_size, maximum_size, window, tree, result, snapshot,
                   task, const_point, found, spawnLog, frame>>

\* resolve_wall_collisions
PassWall ==
    /\ pc = "wall"
    /\ snapshot' = points
    /\ points' = ResolveWallCollisions(points, window)
    /\ pc' = "mouse"
    /\ UNCHANGED <<points_per_quad, running, spawner_mode, mouse_radius,
                   minimum_size, maximum_size, window, tree, result, task,
                   const_point, found, spawnLog, frame>>

\* resolve_mouse_collisions, the pointer being anywhere.
PassMouse ==
    /\ pc = "mouse"
    /\ snapshot' = points
    /\ \E m \in MousePositions :
          /\ points' = ResolveMouseCollisions(points, m, mouse_radius)
          /\ result' = [x |-> m.x, y |-> m.y, radius |-> mouse_radius, value |-> <<>>]
    /\ pc' = "collideB"
    /\ UNCHANGED <<points_per_quad, running, spawner_mode, mouse_radius,
                   minimum_size, maximum_size, window, tree, task,
                   const_point, found, spawnLog, frame>>

\* The integration loop.
PassIntegrate ==
    /\ pc = "integrate"
    /\ snapshot' = points
    /\ points' = Integrate(points)
    /\ pc' = "done"
    /\ UNCHANGED <<points_per_quad, running, spawner_mode, mouse_radius,
                   minimum_size, maximum_size, window, tree, result, task,
                   const_point, found, spawnLog, frame>>

PassNext ==
    \/ PassUpdateEgui
    \/ BeginCollisions
    \/ \E i \in 1..Len(points) : CollisionTask(i)
    \/ JoinCollisions
    \/ PassWall
    \/ PassMouse
    \/ PassIntegrate

SpecPass == PassInit /\ [][PassNext]_vars

(***************************************************************************)
(* Spec: the application.  Init is Model::new; the one handler that        *)
(* changes the model is update, run once per frame: the settings panel     *)
(* (at most one widget is operated in a frame), the spawner, and, when     *)
(* running with a non-empty store, four sub-steps.                         *)
(***************************************************************************)
AppWindow == [w |-> Px(128), h |-> Px(128)]

AppMousePositions == {Vec2(-Px(40), Px(40))}

Settings ==
    [points |-> points, running |-> running, points_per_quad |-> points_per_quad,
     mouse_radius |-> mouse_radius, minimum_size |-> minimum_size,
     maximum_size |-> maximum_size, spawner_mode |-> spawner_mode]

\* update_egui: the model after the panel has handled the frame's input: no
\* widget operated, Clear, Toggle Simulation, the Maximum Size slider, or the
\* spawner radio.  The other sliders stay where Model::new put them.
UpdateEgui(m) ==
    {m}
    \cup {[m EXCEPT !.points = <<>>]}
    \cup {[m EXCEPT !.running = ~m.running]}
    \cup {[m EXCEPT !.maximum_size = v] : v \in MaximumSizeRange(m.minimum_size)}
    \cup {[m EXCEPT !.spawner_mode = v] : v \in {"Inactive", "TopLeft"}}

\* An id one less than the number of live particles.
SpawnIdOffByOne(ps) == IF ps = <<>> THEN 0 ELSE Len(ps) - 1

\* The id spawn_point gives the new particle: self.points.len().
SpawnId(ps) == Len(ps)

\* spawn_point with the radius random_range drew.
SpawnPoint(ps, position, radius) ==
    Append(ps, Spawned(SpawnId(ps), position, radius))

\* What random_range(minimum_size, maximum_size) can return, sampled.
RadiusChoices(min, max) == {min, min + Half(max - min)}

\* pos1 .. pos4 of the TopLeft spawner (main.rs:62-66).
SpawnerPositions(win, max) ==
    [k \in 1..4 |-> Vec2(WinLeft(win) + max, WinTop(win) - max * (2 * k - 1))]

\* Some particle is closer to pos than two maximum radii (main.rs:68).
Blocked(ps, pos, max) ==
    \E i \in 1..Len(ps) : FLt(Length(VSub(ps[i].position, pos)), max * 2)

RECURSIVE RunSpawner(_, _, _, _, _)
RunSpawner(ps, k, radii, win, max) ==
    IF k > 4 THEN ps
    ELSE LET pos == SpawnerPositions(win, max)[k]
         IN  IF k \in DOMAIN radii /\ ~Blocked(ps, pos, max)
             THEN RunSpawner(SpawnPoint(ps, pos, radii[k]), k + 1, radii, win, max)
             ELSE RunSpawner(ps, k + 1, radii, win, max)

FreeSpots(ps, win, max) ==
    {k \in 1..4 : ~Blocked(ps, SpawnerPositions(win, max)[k], max)}

\* The store after the spawner block of update (main.rs:59-73).
Spawner(m, radii, win) ==
    IF m.spawner_mode = "TopLeft"
    THEN RunSpawner(m.points, 1, radii, win, m.maximum_size)
    ELSE m.points

\* The early return with the test of the running flag left out.
StopsWhenEmpty(run, ps) == ps = <<>>

\* The early return of update (main.rs:75).
Stops(run, ps) == ~run \/ ps = <<>>

RECURSIVE SubSteps(_, _, _, _, _, _, _)
SubSteps(n, ps, win, ppq, max_radius, mouse_pos, mr) ==
    IF n = 0 THEN ps
    ELSE SubSteps(n - 1, SubStep(ps, win, ppq, max_radius, mouse_pos, mr),
                  win, ppq, max_radius, mouse_pos, mr)

Ids(ps) == [i \in 1..Len(ps) |-> ps[i].id]

Init ==
    /\ points = <<>>
    /\ points_per_quad = 16
    /\ running = TRUE
    /\ spawner_mode = "TopLeft"
    /\ mouse_radius = Px(16)
    /\ minimum_size = Px(8)
    /\ maximum_size = Px(16)
    /\ window = AppWindow
    /\ tree = QuadTreeNew(WinLeft(window), WinBottom(window), window.w, window.h)
    /\ result = [x |-> 0, y |-> 0, radius |-> 0, value |-> <<>>]
    /\ pc = "new"
    /\ snapshot = <<>>
    /\ task = NoTasks
    /\ const_point = NoTasks
    /\ found = NoTasks
    /\ spawnLog = <<>>
    /\ frame = 0

\* Model::update
Update ==
    /\ frame < MaxFrames
    /\ \E m \in UpdateEgui(Settings), mouse_pos \in AppMousePositions :
       \E radii \in [(IF m.spawner_mode = "TopLeft"
                      THEN FreeSpots(m.points, window, m.maximum_size) ELSE {})
                     -> RadiusChoices(m.minimum_size, m.maximum_size)] :
          LET spawned == Spawner(m, radii, window)
              fresh == SubSeq(spawned, Len(m.points) + 1, Len(spawned))
          IN  /\ running' = m.running
              /\ points_per_quad' = m.points_per_quad
              /\ mouse_radius' = m.mouse_radius
              /\ minimum_size' = m.minimum_size
              /\ maximum_size' = m.maximum_size
              /\ spawner_mode' = m.spawner_mode
              /\ spawnLog' = spawnLog \o Ids(fresh)
              /\ IF Stops(m.running, spawned)
                 THEN /\ points' = spawned
                      /\ pc' = "stopped"
                 ELSE /\ points' = SubSteps(Substeps, spawned, window, m.points_per_quad,
                                            m.maximum_size, mouse_pos, m.mouse_radius)
                      /\ pc' = "stepped"
    /\ snapshot' = points
    /\ frame' = frame + 1
    /\ UNCHANGED <<window, tree, result, task, const_point, found>>

Next == Update

Spec == Init /\ [][Next]_vars

(***************************************************************************)
(* Properties of the passes.                                               *)
(***************************************************************************)
Defined(p) == ~VIsNaN(p.position)

\* C4 (zero-length separating axis): no correction leaves a particle with an
\* undefined position.
NoUndefinedPosition == \A i \in 1..Len(points) : Defined(points[i])

\* The store indices of the neighbours task i's query returned.
Returned(i) == {k \in 1..Len(snapshot) : \E n \in 1..Len(found[i]) : found[i][n].id = snapshot[k].id}

Overlapping(p, q) ==
    LengthSquared(VSub(p.position, q.position))
        <= (p.radius + q.radius) * (p.radius + q.radius)

\* normalize(p0 - q0) * (p.radius + q.radius - |p0 - q0|) * 0.5
Correction(p, q) ==
    HalfPenetration(VSub(p.position, q.position),
                    FSub(p.radius + q.radius, Length(VSub(p.position, q.position))))

\* p0 plus the corrections against the returned, overlapping neighbours, all
\* taken at their start-of-pass positions.
RECURSIVE SumCorrections(_, _)
SumCorrections(i, S) ==
    IF S = {} THEN VZero
    ELSE LET k == CHOOSE k \in S : \A j \in S : k <= j
         IN  VAdd(Correction(snapshot[i], snapshot[k]), SumCorrections(i, S \ {k}))

ExpectedPosition(i) ==
    VAdd(snapshot[i].position,
         SumCorrections(i, {k \in Returned(i) :
                               /\ snapshot[k].id # snapshot[i].id
                               /\ Defined(snapshot[i]) /\ Defined(snapshot[k])
                               /\ Overlapping(snapshot[i], snapshot[k])}))

\* C9 (single-sided snapshot correction): during and after a collision pass a
\* particle whose task has not run is as it was at the start of the pass, and a
\* particle whose task has run differs from its start-of-pass value only in
\* its position, which is p0 plus the sum of the half-penetration corrections
\* against the start-of-pass positions of its returned neighbours.
SingleSidedCorrection ==
    pc \in {"tasksA", "tasksB", "wall", "integrate"} =>
        \A i \in 1..Len(points) :
            /\ task[i] = "ready" => points[i] = snapshot[i]
            /\ task[i] = "done" =>
                  /\ points[i] = [snapshot[i] EXCEPT !.position = points[i].position]
                  /\ points[i].position = ExpectedPosition(i)

\* After a pass over exactly two particles of radius 10 whose centres were 15
\* apart on the x axis, each has moved 2.5 away from the other.
SingleSidedWitness ==
    /\ pc = "wall"
    /\ Len(points) = 2
    /\ snapshot[1].radius = Px(10) /\ snapshot[2].radius = Px(10)
    /\ snapshot[1].position = Vec2(-Px(15), 0)
    /\ snapshot[2].position = Vec2(0, 0)
    /\ points[1].position = Vec2(-Px(15) - Px(5) \div 2, 0)
    /\ points[2].position = Vec2(Px(5) \div 2, 0)

\* C10 (collision detection completeness): the neighbours returned to a task
\* hold every other particle that lay inside the index bounds with it and
\* overlapped it at the start of the pass.
DetectionComplete ==
    pc \in {"tasksA", "tasksB", "wall", "integrate"} =>
        \A i, k \in 1..Len(points) :
            (/\ task[i] = "done"
             /\ i # k
             /\ Defined(snapshot[i]) /\ Defined(snapshot[k])
             /\ InsideInclusive(snapshot[i], tree)
             /\ InsideInclusive(snapshot[k], tree)
             /\ Overlapping(snapshot[i], snapshot[k]))
            => k \in Returned(i)

PenetratesFloor(p, win) == FLt(FSub(p.position.y, p.radius), WinBottom(win))
PenetratesLeft(p, win) == FLt(FSub(p.position.x, p.radius), WinLeft(win))
PenetratesRight(p, win) == FGt(FAdd(p.position.x, p.radius), WinRight(win))

\* C7 as claimed (wall clamp exactness): after the wall pass every particle
\* sits at boundary +/- radius for each boundary it penetrated before the pass.
WallClampEveryBoundary ==
    pc = "mouse" =>
        \A i \in 1..Len(points) :
            /\ PenetratesFloor(snapshot[i], window)
                  => points[i].position.y = WinBottom(window) + points[i].radius
            /\ PenetratesLeft(snapshot[i], window)
                  => points[i].position.x = WinLeft(window) + points[i].radius
            /\ PenetratesRight(snapshot[i], window)
                  => points[i].position.x = WinRight(window) - points[i].radius

\* C7 as amended: the same for the floor and the left wall, and for the right
\* wall when the particle did not penetrate the left wall as well; a particle
\* that penetrated both side walls is clamped to the left wall only.
WallClampExact ==
    pc = "mouse" =>
        \A i \in 1..Len(points) :
            /\ PenetratesFloor(snapshot[i], window)
                  => points[i].position.y = WinBottom(window) + points[i].radius
            /\ PenetratesLeft(snapshot[i], window)
                  => points[i].position.x = WinLeft(window) + points[i].radius
            /\ (PenetratesRight(snapshot[i], window) /\ ~PenetratesLeft(snapshot[i], window))
                  => points[i].position.x = WinRight(window) - points[i].radius

\* After a wall pass: one particle that had penetrated the floor and the right
\* wall sits in the corner, and one that had penetrated both side walls sits
\* against the left wall.
WallClampWitness ==
    /\ pc = "mouse"
    /\ \E i \in 1..Len(points) :
          /\ PenetratesFloor(snapshot[i], window)
          /\ PenetratesRight(snapshot[i], window)
          /\ ~PenetratesLeft(snapshot[i], window)
          /\ points[i].position = Vec2(WinRight(window) - points[i].radius,
                                       WinBottom(window) + points[i].radius)
    /\ \E i \in 1..Len(points) :
          /\ PenetratesLeft(snapshot[i], window)
          /\ PenetratesRight(snapshot[i], window)
          /\ points[i].position.x = WinLeft(window) + points[i].radius

(***************************************************************************)
(* Properties of the application.                                          *)
(***************************************************************************)
StrictlyIncreasing(ids) == \A i, j \in 1..Len(ids) : i < j => ids[i] < ids[j]

\* C5 as claimed (spawn ids): every spawn returns an id greater than every id
\* an earlier spawn returned, and no two live particles share an id.
SpawnIdsIncreaseForever ==
    /\ StrictlyIncreasing(spawnLog)
    /\ \A i, j \in 1..Len(points) : i # j => points[i].id # points[j].id

\* C5 as amended: the ids spawned since the store was last cleared are
\* 0, 1, 2, ... in spawn order (each the number of live particles at its
\* spawn), hence strictly increasing, and no two live particles share an id.
SpawnIdsIncreaseSinceClear ==
    /\ Len(spawnLog) >= Len(points)
    /\ SubSeq(spawnLog, Len(spawnLog) - Len(points) + 1, Len(spawnLog)) = Ids(points)
    /\ \A i \in 1..Len(points) : points[i].id = i - 1
    /\ StrictlyIncreasing(Ids(points))
    /\ \A i, j \in 1..Len(points) : i # j => points[i].id # points[j].id

\* Particles spawned after a clear live in a store that was filled before.
SpawnIdsWitness ==
    /\ Len(points) >= 2
    /\ Len(spawnLog) > Len(points)

AsSpawned(p) ==
    /\ p.prev_position = VAdd(p.position, Vec2(-Px(2), 0))
    /\ p.acceleration = VZero
    /\ \E k \in 1..4 : p.position = SpawnerPositions(window, maximum_size)[k]

\* C6 as claimed (not running): a frame update that finds the running flag
\* false leaves the store as it was before the update.
StoppedFrameUntouched ==
    (frame > 0 /\ ~running) => points = snapshot

\* C6 as amended: a frame update that finds the running flag false runs no
\* sub-step: every particle it keeps is unchanged, and the store differs from
\* the one before the update only by the panel's Clear having emptied it and
\* by particles the spawner appended, which are still as spawn_point made them.
StoppedFrameRunsNoSubStep ==
    (frame > 0 /\ ~running) =>
        /\ pc = "stopped"
        /\ \E base \in {snapshot, <<>>} :
              /\ Len(points) >= Len(base)
              /\ SubSeq(points, 1, Len(base)) = base
              /\ \A i \in (Len(base) + 1)..Len(points) : AsSpawned(points[i])

\* A frame update on a non-empty store, with the flag false, that changed
\* nothing.
StoppedFrameWitness ==
    /\ frame > 0
    /\ ~running
    /\ pc = "stopped"
    /\ points # <<>>
    /\ points = snapshot

====
